---- MODULE Spec2Model ----
(***************************************************************************)
(* LTI 1.3 / OIDC launch authentication of the SMEPro Orchestrator:        *)
(* LTI13Auth (src/lti13.py) and the /lti/login, /lti/launch routes with    *)
(* the session issuer (src/orchestrator.py).                               *)
(*                                                                         *)
(* Modelling notes.                                                        *)
(*  - Time is a discrete clock `now`, in ticks of one TTL.                 *)
(*  - secrets.token_urlsafe(32) values (state, nonce, session token) are   *)
(*    fresh: the k-th value drawn is the number k.                         *)
(*  - The bodies of _store_state/_get_state/_delete_state are not in the   *)
(*    repository (src/lti13.py:350-363 are placeholders for a Redis        *)
(*    store).  They are modelled as the three separate key-value           *)
(*    operations their declarations describe (store, retrieve, delete)     *)
(*    with the expiry of spec section 4.2; how handle_launch composes      *)
(*    them is taken from the code.                                         *)
(*  - A token is modelled by its header (alg, kid), the key material that  *)
(*    produced its signature (sig) and its payload claims.  PyJWT's        *)
(*    jwt.decode is modelled by the checks it performs, in its order.      *)
(***************************************************************************)
EXTENDS Integers, Sequences, FiniteSets, TLC

-----------------------------------------------------------------------------
(* Bounds of the model *)

\* login initiations that may succeed
MaxLogins == 2
\* launch requests accepted over a run
MaxLaunches == 2

(* TTLs, in clock ticks: an entry written at tick t is usable at t and   *)
(* expired from t + TTL on.  The program's TTLs (1 hour for the JWKS      *)
(* cache, 24 hours for a session) differ in length, but no operation      *)
(* relates the expiry of one store to that of another, so each is one     *)
(* tick here.                                                             *)
StateTTL == 1
JwksTTL == 1
SessionTTL == 1

\* The clock runs until everything written at time 0 has expired.
MaxTime == JwksTTL

\* the request handlers that may run concurrently (threads / workers)
Workers == {"w1", "w2"}

-----------------------------------------------------------------------------
(* Platform registry: app.config['LTI13_PLATFORMS'] *)

None == "None"

InitialPlatforms ==
    [p \in {"bb", "canvas"} |->
        IF p = "bb"
        THEN [issuer |-> "https://lms.example.edu", client_id |-> "tool-123",
              auth_login_url |-> "https://lms.example.edu/auth",
              auth_jwks_url |-> "https://lms.example.edu/jwks",
              deployment_ids |-> {"dep-1"}]
        ELSE [issuer |-> "https://canvas.example.edu", client_id |-> "tool-456",
              auth_login_url |-> "https://canvas.example.edu/auth",
              auth_jwks_url |-> "https://canvas.example.edu/jwks",
              deployment_ids |-> {"dep-2"}]]

\* What each platform's JWKS endpoint serves: a list of JWKs (kid, key).
RemoteJwks(url) ==
    IF url = "https://lms.example.edu/jwks"
    THEN << [kid |-> "k1", key |-> "keyA"], [kid |-> "k2", key |-> "keyA2"] >>
    ELSE << [kid |-> "k1", key |-> "keyB"] >>

-----------------------------------------------------------------------------
(* ID tokens *)

SigNone == "unsigned"

\* An HS256 MAC computed with a public key used as the shared secret.
Hmac(key) == CASE key = "keyA"  -> "hmac-keyA"
               [] key = "keyA2" -> "hmac-keyA2"
               [] key = "keyB"  -> "hmac-keyB"
               [] OTHER         -> "hmac-other"

RoleInstructor == "http://purl.imsglobal.org/vocab/lis/v2/membership#Instructor"
RoleAdmin == "http://purl.imsglobal.org/vocab/lis/v2/membership#Administrator"
RoleLearner == "http://purl.imsglobal.org/vocab/lis/v2/membership#Learner"

\* The well-formed launch token platform p issues for a login with nonce n.
\* exp is <<>> (no exp claim) or <<time>>; aud is the set of audiences
\* (a string audience is the singleton, {} a missing claim); nonce 0 is
\* "no nonce claim"; None is a missing claim or header.
GoodToken(p, n) ==
    [alg |-> "RS256", kid |-> "k1",
     sig |-> IF p = "bb" THEN "keyA" ELSE "keyB",
     aud |-> {InitialPlatforms[p].client_id},
     iss |-> InitialPlatforms[p].issuer,
     exp |-> << MaxTime + 1 >>,
     version |-> "1.3.0",
     deployment_id |-> IF p = "bb" THEN "dep-1" ELSE "dep-2",
     nonce |-> n, sub |-> "u42", roles |-> << RoleInstructor >>,
     nrps |-> << >>, ags |-> << >>]

NoToken ==
    [alg |-> None, kid |-> None, sig |-> None, aud |-> {}, iss |-> None,
     exp |-> << >>, version |-> None, deployment_id |-> None, nonce |-> 0,
     sub |-> None, roles |-> << >>, nrps |-> << >>, ags |-> << >>]

-----------------------------------------------------------------------------
(* PyJWT: jwt.decode(token, key, algorithms, audience, issuer) *)

\* Signature verification of a token under algorithm alg with key `key`.
VerifySignature(alg, key, sig) ==
    CASE alg = "RS256" -> sig = key
      [] alg = "HS256" -> sig = Hmac(key)
      [] alg = "none"  -> sig = SigNone
      [] OTHER         -> FALSE

\* Faulty variant of jwt_decode: the header's alg is trusted (no algorithms list).
jwt_decode_trust_alg(token, key, algorithms, audience, issuer, t) ==
    IF ~VerifySignature(token.alg, key, token.sig)
         THEN "InvalidSignatureError"
    ELSE IF token.exp # << >> /\ token.exp[1] <= t
         THEN "ExpiredSignatureError"
    ELSE IF token.iss = None THEN "MissingRequiredClaimError"
    ELSE IF token.iss # issuer THEN "InvalidIssuerError"
    ELSE IF token.aud = {} THEN "MissingRequiredClaimError"
    ELSE IF audience \notin token.aud THEN "InvalidAudienceError"
    ELSE "ok"

\* The outcome of jwt.decode: "ok" or the name of the exception raised.
\* Order: header algorithm, signature, then exp, iss, aud.
jwt_decode(token, key, algorithms, audience, issuer, t) ==
    IF token.alg \notin algorithms THEN "InvalidAlgorithmError"
    ELSE IF ~VerifySignature(token.alg, key, token.sig)
         THEN "InvalidSignatureError"
    ELSE IF token.exp # << >> /\ token.exp[1] <= t
         THEN "ExpiredSignatureError"
    ELSE IF token.iss = None THEN "MissingRequiredClaimError"
    ELSE IF token.iss # issuer THEN "InvalidIssuerError"
    ELSE IF token.aud = {} THEN "MissingRequiredClaimError"
    ELSE IF audience \notin token.aud THEN "InvalidAudienceError"
    ELSE "ok"

\* Faulty variant of jwt_decode_unverified: the expiry is verified though
\* the signature is not.
jwt_decode_unverified_verify_exp(token, t) ==
    IF token.exp # << >> /\ token.exp[1] <= t THEN "ExpiredSignatureError"
    ELSE "ok"

\* jwt.decode(token, options={"verify_signature": False})
\* (src/lti13.py line 206): with the signature not verified no claim is
\* verified either, and a token that parses is decoded
jwt_decode_unverified(token, t) == "ok"

-----------------------------------------------------------------------------
(* LTI13Auth._validate_jwt *)

NoKey == "NoKey"

\* Faulty variant of FindKey: with no kid match the first key of the set is used.
FindKey_default_first(jwks, kid) ==
    LET idx == {i \in 1..Len(jwks) : jwks[i].kid = kid}
    IN  IF jwks = << >> THEN NoKey
        ELSE IF idx = {} THEN jwks[1].key
        ELSE jwks[CHOOSE i \in idx : \A j \in idx : i <= j].key

\* The key of the first JWK of the key set whose kid equals the header's kid.
FindKey(jwks, kid) ==
    LET idx == {i \in 1..Len(jwks) : jwks[i].kid = kid}
    IN  IF idx = {} THEN NoKey
        ELSE jwks[CHOOSE i \in idx : \A j \in idx : i <= j].key

\* Faulty variant of _validate_jwt: the LTI version claim is not checked.
_validate_jwt_no_version(token, jwks, platform, t) ==
    LET unverified == jwt_decode_unverified(token, t)
        key == FindKey(jwks, token.kid)
        res == jwt_decode(token, key, {"RS256"}, platform.client_id,
                          platform.issuer, t)
    IN  IF unverified # "ok" THEN unverified
        ELSE IF key = NoKey THEN "Unable to find matching JWK"
        ELSE IF res # "ok" THEN res
        ELSE IF token.deployment_id = None THEN "Missing deployment_id"
        ELSE IF token.deployment_id \notin platform.deployment_ids
             THEN "Invalid deployment_id"
        ELSE "ok"

\* Faulty variant of _validate_jwt: the deployment id is only required to be present.
_validate_jwt_any_deployment(token, jwks, platform, t) ==
    LET unverified == jwt_decode_unverified(token, t)
        key == FindKey(jwks, token.kid)
        res == jwt_decode(token, key, {"RS256"}, platform.client_id,
                          platform.issuer, t)
    IN  IF unverified # "ok" THEN unverified
        ELSE IF key = NoKey THEN "Unable to find matching JWK"
        ELSE IF res # "ok" THEN res
        ELSE IF token.version # "1.3.0" THEN "Invalid LTI version"
        ELSE IF token.deployment_id = None THEN "Missing deployment_id"
        ELSE "ok"

\* "ok", or the error the launch fails with.
_validate_jwt(token, jwks, platform, t) ==
    LET unverified == jwt_decode_unverified(token, t)
        key == FindKey(jwks, token.kid)
        res == jwt_decode(token, key, {"RS256"}, platform.client_id,
                          platform.issuer, t)
    IN  IF unverified # "ok" THEN unverified
        ELSE IF key = NoKey THEN "Unable to find matching JWK"
        ELSE IF res # "ok" THEN res
        ELSE IF token.version # "1.3.0" THEN "Invalid LTI version"
        ELSE IF token.deployment_id = None THEN "Missing deployment_id"
        ELSE IF token.deployment_id \notin platform.deployment_ids
             THEN "Invalid deployment_id"
        ELSE "ok"

-----------------------------------------------------------------------------
(* LTI13Auth._determine_user_role, _extract_lti_context *)

instructor_roles ==
    {"http://purl.imsglobal.org/vocab/lis/v2/institution/person#Instructor",
     "http://purl.imsglobal.org/vocab/lis/v2/membership#Instructor",
     "urn:lti:role:ims/lis/Instructor", "Instructor"}

admin_roles ==
    {"http://purl.imsglobal.org/vocab/lis/v2/institution/person#Administrator",
     "http://purl.imsglobal.org/vocab/lis/v2/membership#Administrator",
     "urn:lti:role:ims/lis/Administrator", "Administrator"}

\* Faulty variant of _determine_user_role: a list with no recognized role
\* falls through to 'instructor'.
RECURSIVE _determine_user_role_default_instructor(_)
_determine_user_role_default_instructor(roles) ==
    IF roles = << >> THEN "instructor"
    ELSE IF Head(roles) \in admin_roles THEN "admin"
    ELSE IF Head(roles) \in instructor_roles THEN "instructor"
    ELSE _determine_user_role_default_instructor(Tail(roles))

\* The first role of the list that is an admin or an instructor role decides.
RECURSIVE _determine_user_role(_)
_determine_user_role(roles) ==
    IF roles = << >> THEN "student"
    ELSE IF Head(roles) \in admin_roles THEN "admin"
    ELSE IF Head(roles) \in instructor_roles THEN "instructor"
    ELSE _determine_user_role(Tail(roles))

NoContext == [user_id |-> None, user_role |-> None]

\* services = {}: a service that has no descriptor is << >>, one that
\* has a descriptor d is << d >>
NoServices == [nrps |-> << >>, ags |-> << >>]

(* The namesroleservice and ags claims of a token: << >> when the token    *)
(* has no such claim, << v >> when its value is v.  A value is a JSON      *)
(* object, given by the keys it holds, or a JSON string.                  *)
JsonObject(keys) == [kind |-> "dict", keys |-> keys]
JsonString == [kind |-> "str", keys |-> {}]

\* decoded.get(claim, {})
claim_get(claim) == IF claim = << >> THEN JsonObject({}) ELSE claim[1]

\* `if nrps:`, `if ags:`: an object that holds a key, or a string
truthy(v) == v.kind # "dict" \/ v.keys # {}

\* v.get(key), v.get(key, default)
dict_get(v, key, value, default) == IF key \in v.keys THEN value ELSE default

\* lines 283-286
nrps_descriptor(v) ==
    [context_memberships_url |->
         dict_get(v, "context_memberships_url",
                  "https://lms.example.edu/memberships", None),
     service_versions |-> dict_get(v, "service_versions", << "2.0" >>, << >>)]

\* lines 291-295
ags_descriptor(v) ==
    [lineitems |-> dict_get(v, "lineitems",
                            "https://lms.example.edu/lineitems", None),
     lineitem |-> dict_get(v, "lineitem",
                           "https://lms.example.edu/lineitems/1", None),
     scope |-> dict_get(v, "scope", << "lineitem" >>, << >>)]

\* Faulty variant of _extract_service_endpoints: the claims are read with
\* decoded[claim], which raises for a token that has no such claim.
_extract_service_endpoints_subscript(decoded) ==
    IF decoded.nrps = << >> \/ decoded.ags = << >>
    THEN [raised |-> "KeyError", services |-> NoServices]
    ELSE LET nrps == claim_get(decoded.nrps)
             ags == claim_get(decoded.ags)
         IN  IF \/ truthy(nrps) /\ nrps.kind # "dict"
                \/ truthy(ags) /\ ags.kind # "dict"
             THEN [raised |-> "AttributeError", services |-> NoServices]
             ELSE [raised |-> None,
                   services |->
                       [nrps |-> IF truthy(nrps) THEN << nrps_descriptor(nrps) >>
                                 ELSE << >>,
                        ags |-> IF truthy(ags) THEN << ags_descriptor(ags) >>
                                ELSE << >>]]

\* _extract_service_endpoints (lines 274-297): the exception raised (a
\* string has no get), the services returned
_extract_service_endpoints(decoded) ==
    LET nrps == claim_get(decoded.nrps)
        ags == claim_get(decoded.ags)
    IN  IF \/ truthy(nrps) /\ nrps.kind # "dict"
           \/ truthy(ags) /\ ags.kind # "dict"
        THEN [raised |-> "AttributeError", services |-> NoServices]
        ELSE [raised |-> None,
              services |->
                  [nrps |-> IF truthy(nrps) THEN << nrps_descriptor(nrps) >>
                            ELSE << >>,
                   ags |-> IF truthy(ags) THEN << ags_descriptor(ags) >>
                           ELSE << >>]]

\* Faulty variant of _extract_lti_context: the role is left at its default.
_extract_lti_context_default_role(decoded) ==
    [user_id |-> decoded.sub, user_role |-> "student"]

\* Faulty variant of _extract_lti_context: the first role string of the
\* token is the role.
_extract_lti_context_verbatim(decoded) ==
    [user_id |-> decoded.sub,
     user_role |-> IF decoded.roles = << >> THEN "student"
                   ELSE Head(decoded.roles)]

_extract_lti_context(decoded) ==
    [user_id |-> decoded.sub, user_role |-> _determine_user_role(decoded.roles)]

-----------------------------------------------------------------------------
(* State *)

VARIABLES
    now,               \* datetime.utcnow(), in ticks
    platform_configs,  \* LTI13Auth.platform_configs: platform id -> config
    state_store,       \* the login state store: state token -> entry
    jwks_cache,        \* LTI13Auth._jwks_cache: url -> [jwks, expires]
    redis_client,      \* orchestrator.redis_client is not None (Redis was
                       \* reachable at start-up)
    sessions,          \* redis "session:<token>" keys: token -> entry
    n_logins,          \* state/nonce pairs drawn so far
    n_sessions,        \* session tokens drawn so far
    n_launches,        \* launch requests accepted so far
    login_resp,        \* the /lti/login response sent by the last step
    launch_resp,       \* the /lti/launch response sent by the last step
                       \* (NoLoginResp, NoResp when it sent none)
    req,               \* per worker: the /lti/launch request it is handling
    issued_for,        \* history: state token -> session tokens returned by
                       \* launches that presented it
    jwt_in, jwt_out,   \* input and result of a stand-alone _validate_jwt call
    role_in, role_out, \* input and result of a stand-alone
                       \* _determine_user_role call
    session_ret,       \* arguments and result of the last stand-alone
                       \* _create_session call
    g,                 \* flask.g after the last before_request
    platform_order,    \* the platform ids in the order of the dict's keys
    registry_ret,      \* the exception the last register_platform call
                       \* raised (None: it returned)
    lookup,            \* argument and result of the last stand-alone
                       \* _get_platform_by_issuer call
    svc_in, svc_out,   \* input and result of a stand-alone
                       \* _extract_service_endpoints call
    guard_in, guard_out \* the route guard last run, the lti_context it
                       \* read, and what it did

vars == << now, platform_configs, state_store, jwks_cache, redis_client,
           sessions, n_logins, n_sessions, n_launches, login_resp, launch_resp,
           req, issued_for, jwt_in, jwt_out, role_in, role_out,
           session_ret, g, platform_order, registry_ret, lookup,
           svc_in, svc_out, guard_in, guard_out >>

\* what only the registry's own operations write
registry_vars == << platform_order, registry_ret, lookup >>

\* what only the stand-alone calls of the extraction and of the route
\* guards write
call_vars == << svc_in, svc_out, guard_in, guard_out >>

-----------------------------------------------------------------------------
(* The login state store (placeholders at src/lti13.py:350-363) *)

NoState == [platform_id |-> None, nonce |-> 0, target_link_uri |-> None,
            timestamp |-> 0]

\* put(state, entry, ttl): overwrites silently
_store_state(store, state, data, t) ==
    [s \in DOMAIN store \cup {state} |->
        IF s = state THEN [data |-> data, expires |-> t + StateTTL]
        ELSE store[s]]

\* Faulty variant of _get_state: an entry is served whatever its age.
_get_state_no_expiry(store, state, t) ==
    IF state \in DOMAIN store THEN store[state].data ELSE NoState

\* retrieve: NoState when absent or expired; the entry stays in the store
_get_state(store, state, t) ==
    IF state \in DOMAIN store /\ store[state].expires > t
    THEN store[state].data
    ELSE NoState

_delete_state(store, state) ==
    [s \in DOMAIN store \ {state} |-> store[s]]

-----------------------------------------------------------------------------
(* LTI13Auth._get_platform_by_issuer *)

NoPlatform == [id |-> None, issuer |-> None, client_id |-> None,
               auth_login_url |-> None, auth_jwks_url |-> None,
               deployment_ids |-> {}]

\* {**config, 'id': platform_id} (line 328)
WithId(configs, pid) ==
    [id |-> pid, issuer |-> configs[pid].issuer,
     client_id |-> configs[pid].client_id,
     auth_login_url |-> configs[pid].auth_login_url,
     auth_jwks_url |-> configs[pid].auth_jwks_url,
     deployment_ids |-> configs[pid].deployment_ids]

\* the platform ids whose configuration has the issuer, as positions in
\* the order of the dict's keys
IssuerHits(configs, issuer) ==
    {i \in 1..Len(platform_order) :
        /\ platform_order[i] \in DOMAIN configs
        /\ configs[platform_order[i]].issuer = issuer}

\* Faulty variant of _get_platform_by_issuer: with no match the first
\* registered platform is returned.
_get_platform_by_issuer_default(configs, issuer) ==
    LET hit == IssuerHits(configs, issuer)
    IN  WithId(configs, platform_order[IF hit = {} THEN 1
                                       ELSE CHOOSE i \in hit :
                                                \A j \in hit : i <= j])

\* the first configuration, in the order of the dict's keys, whose issuer
\* is the argument (lines 326-329)
_get_platform_by_issuer(configs, issuer) ==
    LET hit == IssuerHits(configs, issuer)
    IN  IF hit = {} THEN NoPlatform
        ELSE WithId(configs,
                    platform_order[CHOOSE i \in hit : \A j \in hit : i <= j])

\* Faulty variant of registry_after_lookup: the id is written into the
\* stored configuration itself.
registry_after_lookup_in_place(configs, issuer) ==
    LET hit == IssuerHits(configs, issuer)
    IN  IF hit = {} THEN configs
        ELSE LET pid == platform_order[CHOOSE i \in hit : \A j \in hit : i <= j]
             IN  [q \in DOMAIN configs |->
                     IF q = pid THEN WithId(configs, pid) ELSE configs[q]]

\* the registry after _get_platform_by_issuer: the match is returned as a
\* copy, {**config, 'id': platform_id} (line 328)
registry_after_lookup(configs, issuer) == configs

-----------------------------------------------------------------------------
(* Initial state *)

\* no stand-alone _get_platform_by_issuer call
NoLookup == [issuer |-> None, platform |-> NoPlatform]
\* state: the state parameter of the request the response answers
NoResp == [status |-> 0, error |-> None, session_token |-> 0,
           user_role |-> None, state |-> 0]
\* redirect_url: the query string of the URL, as a sequence of pieces
NoLoginResp == [status |-> 0, error |-> None, state |-> 0, nonce |-> 0,
                client_id |-> None, login_hint |-> None,
                lti_message_hint |-> None, redirect_url |-> << >>]
\* A worker's request: its position in lti_launch and the locals of
\* handle_launch that are set so far.
IdleReq == [pc |-> "idle", state |-> 0, stored_state |-> NoState,
            platform |-> NoPlatform, jwks |-> << >>, decoded |-> NoToken,
            context |-> NoContext]
NoJwtIn == [token |-> NoToken, jwks |-> << >>, platform |-> NoPlatform,
            t |-> 0]
NoSessionRet == [token |-> 0, context |-> NoContext, services |-> NoServices]
NoG == [lti_token |-> 0, lti_context |-> NoContext]
\* no stand-alone _extract_service_endpoints call
NoSvcOut == [raised |-> None, services |-> NoServices, done |-> FALSE]
NoSvcCall == svc_in = NoToken /\ svc_out = NoSvcOut
\* no route guard run
NoGuardIn == [guard |-> None, lti_context |-> NoContext]
NoGuardOut == [status |-> 0, handler |-> FALSE]
NoGuardCall == guard_in = NoGuardIn /\ guard_out = NoGuardOut

InitStores ==
    /\ now = 0
    /\ platform_configs = InitialPlatforms
    /\ platform_order = << "bb", "canvas" >>
    /\ registry_ret = None
    /\ lookup = NoLookup
    /\ state_store = << >>
    /\ jwks_cache = << >>
    /\ sessions = << >>
    /\ n_logins = 0
    /\ n_sessions = 0
    /\ n_launches = 0
    /\ login_resp = NoLoginResp
    /\ launch_resp = NoResp
    /\ req = [w \in Workers |-> IdleReq]
    /\ issued_for = << >>
    /\ session_ret = NoSessionRet
    /\ g = NoG
    /\ NoGuardCall

\* Redis answered the ping at start-up
InitProtocol ==
    /\ InitStores
    /\ redis_client = TRUE
    /\ NoSvcCall

\* no stand-alone _validate_jwt call
NoJwtCall == jwt_in = NoJwtIn /\ jwt_out = None
\* no stand-alone _determine_user_role call
NoRoleCall == role_in = << >> /\ role_out = None

Init ==
    /\ InitProtocol
    /\ NoJwtCall
    /\ NoRoleCall

-----------------------------------------------------------------------------
(* Inputs *)

Issuers == {None, "https://lms.example.edu", "https://canvas.example.edu",
            "https://evil.example"}
\* The issuers of the logins that launches follow: the logins of one
\* platform, while the tokens of both are presented to its launches.
\* (Logins of every issuer are in SpecLogin.)
ProtocolIssuers == Issuers \ {"https://canvas.example.edu"}
LoginHints == {None, "u42"}
TargetLinkUris == {"https://tool/launch"}
MessageHints == {None}

Nonces == 1..MaxLogins

\* The launch tokens presented: each platform's own token for each nonce
\* and, for the first nonce, one token failing each single check and one
\* valid token of a learner.
TokensFor(n) ==
    LET good == GoodToken("bb", n)
    IN  { good,
          GoodToken("canvas", n),
          [good EXCEPT !.kid = "k9"],
          [good EXCEPT !.sig = "keyEvil"],
          [good EXCEPT !.alg = "HS256", !.sig = Hmac("keyA")],
          [good EXCEPT !.aud = {"tool-456"}],
          [good EXCEPT !.aud = {"tool-123", "tool-other"}],
          [good EXCEPT !.exp = << 1 >>],
          [good EXCEPT !.version = "1.2.0"],
          [good EXCEPT !.deployment_id = "dep-2"],
          [good EXCEPT !.roles = << RoleLearner >>] }

LaunchTokens ==
    TokensFor(1) \cup {GoodToken(p, n) : p \in {"bb", "canvas"}, n \in Nonces}

\* state parameter: 0 is a missing parameter, MaxLogins + 1 is never issued
LaunchStates == 0..(MaxLogins + 1)

-----------------------------------------------------------------------------
(* POST /lti/login: LTI13Auth.handle_login *)

\* Faulty variant of token_urlsafe: the same value at every call.
token_urlsafe_repeat(n) == 1

\* secrets.token_urlsafe(32), after n earlier draws: 256 random bits, taken
\* to be a value never drawn before
token_urlsafe(n) == n + 1

\* A parameter value as the pieces a URL is cut into: a text free of '&'
\* and '=' is one piece, and each '&' and '=' is a piece of its own.
Chars(v) ==
    CASE v = "u42&lti_message_hint=forged"
           -> << "u42", "&", "lti_message_hint", "=", "forged" >>
      [] OTHER -> << v >>

\* LTI13_TOOL_URL + LTI13_LAUNCH_URL
RedirectUri == "https://api.smepro.lamar.edu/lti/launch"

\* the auth_request dict (lines 128-142), in insertion order, each value
\* as str() gives it
auth_request(platform, login_hint, state, nonce, lti_message_hint) ==
    << << "scope", << "openid" >> >>,
       << "response_type", << "id_token" >> >>,
       << "client_id", Chars(platform.client_id) >>,
       << "redirect_uri", Chars(RedirectUri) >>,
       << "login_hint", Chars(login_hint) >>,
       << "state", << ToString(state) >> >>,
       << "response_mode", << "form_post" >> >>,
       << "nonce", << ToString(nonce) >> >>,
       << "prompt", << "none" >> >> >>
    \o (IF lti_message_hint = None THEN << >>
        ELSE << << "lti_message_hint", Chars(lti_message_hint) >> >>)

\* '&'.join([f'{k}={v}' for k, v in auth_request.items()]) (line 146):
\* keys and values are written as they are, nothing is percent-encoded
RECURSIVE JoinQuery(_)
JoinQuery(items) ==
    IF items = << >> THEN << >>
    ELSE << items[1][1], "=" >> \o items[1][2]
         \o (IF Len(items) = 1 THEN << >>
             ELSE << "&" >> \o JoinQuery(Tail(items)))

HandleLogin(iss, login_hint, target_link_uri, lti_message_hint) ==
    LET platform == _get_platform_by_issuer(platform_configs, iss)
        state == token_urlsafe(n_logins)
        nonce == token_urlsafe(n_logins)
    IN
    /\ IF iss = None \/ login_hint = None
       THEN /\ login_resp' = [NoLoginResp EXCEPT !.status = 400,
                                 !.error = "Missing required parameters"]
            /\ UNCHANGED << state_store, n_logins >>
       ELSE IF platform = NoPlatform
       THEN /\ login_resp' = [NoLoginResp EXCEPT !.status = 400,
                                 !.error = "Unknown platform issuer"]
            /\ UNCHANGED << state_store, n_logins >>
       ELSE /\ n_logins < MaxLogins
            /\ n_logins' = n_logins + 1
            /\ state_store' = _store_state(state_store, state,
                                  [platform_id |-> platform.id,
                                   nonce |-> nonce,
                                   target_link_uri |-> target_link_uri,
                                   timestamp |-> now], now)
            /\ login_resp' = [status |-> 200, error |-> None,
                              state |-> state, nonce |-> nonce,
                              client_id |-> platform.client_id,
                              login_hint |-> login_hint,
                              lti_message_hint |-> lti_message_hint,
                              redirect_url |-> JoinQuery(auth_request(
                                  platform, login_hint, state, nonce,
                                  lti_message_hint))]
    /\ platform_configs' = IF iss = None \/ login_hint = None
                            THEN platform_configs
                            ELSE registry_after_lookup(platform_configs, iss)
    /\ launch_resp' = NoResp
    /\ UNCHANGED << now, registry_vars, call_vars, jwks_cache, redis_client, sessions,
                    n_sessions, n_launches, req, issued_for, jwt_in, jwt_out,
                    role_in, role_out, session_ret, g >>

-----------------------------------------------------------------------------
(* POST /lti/launch: lti_launch, LTI13Auth.handle_launch, _create_session *)

\* except Exception: 400 'Launch failed' with str(e)
Failed(state, msg) ==
    [NoResp EXCEPT !.status = 400, !.error = msg, !.state = state]

LaunchUnchanged ==
    /\ login_resp' = NoLoginResp
    /\ UNCHANGED << now, platform_configs, registry_vars, call_vars,
                    redis_client, n_logins, jwt_in,
                    jwt_out, role_in, role_out, session_ret, g >>

\* Workers are interchangeable: a request goes to the first free one.
FirstFree(w) ==
    w = "w1" \/ req["w1"].pc # "idle"

\* Faulty variant of missing_parameter: the state is looked at first.
missing_parameter_state_first(has_token, state) ==
    IF state = 0 THEN "Missing state"
    ELSE IF ~has_token THEN "Missing id_token"
    ELSE None

\* handle_launch, the presence of id_token and state (lines 159-166)
missing_parameter(has_token, state) ==
    IF ~has_token THEN "Missing id_token"
    ELSE IF state = 0 THEN "Missing state"
    ELSE None

\* handle_launch up to the platform lookup (lines 159-176).  has_token:
\* the id_token parameter is present (its content is first read by
\* _validate_jwt).  state: 0 (missing), an issued token, or one never issued.
LaunchBegin(w, has_token, state) ==
    LET stored_state == _get_state(state_store, state, now)
        missing == missing_parameter(has_token, state)
        error == IF missing # None THEN missing
                 ELSE IF stored_state = NoState
                      THEN "Invalid or expired state"
                 ELSE IF stored_state.platform_id \notin DOMAIN platform_configs
                      THEN "Unknown platform"
                 ELSE None
    IN
    /\ req[w].pc = "idle"
    /\ FirstFree(w)
    /\ state <= n_logins + 1
    /\ n_launches < MaxLaunches
    /\ n_launches' = n_launches + 1
    /\ IF error # None
       THEN /\ launch_resp' = Failed(state, error)
            /\ req' = req
       ELSE /\ launch_resp' = NoResp
            /\ req' = [req EXCEPT ![w] =
                  [IdleReq EXCEPT !.pc = "get_jwks", !.state = state,
                       !.stored_state = stored_state,
                       !.platform = WithId(platform_configs,
                                           stored_state.platform_id)]]
    /\ UNCHANGED << state_store, jwks_cache, sessions, n_sessions, issued_for >>
    /\ LaunchUnchanged

\* Faulty variant of cache_hit: the expiry is not looked at.
cache_hit_no_expiry(cache, url, t) == url \in DOMAIN cache

\* _get_jwks, the cache test (lines 334-336)
cache_hit(cache, url, t) ==
    /\ url \in DOMAIN cache
    /\ cache[url].expires > t

\* _get_jwks, the cache lookup (lines 334-337)
LaunchGetJwks(w) ==
    LET r == req[w]
        url == r.platform.auth_jwks_url
    IN
    /\ r.pc = "get_jwks"
    /\ req' = [req EXCEPT ![w] =
          IF cache_hit(jwks_cache, url, now)
          THEN [r EXCEPT !.pc = "validate", !.jwks = jwks_cache[url].jwks]
          ELSE [r EXCEPT !.pc = "fetch"]]
    /\ launch_resp' = NoResp
    /\ UNCHANGED << state_store, jwks_cache, sessions, n_sessions, n_launches,
                    issued_for >>
    /\ LaunchUnchanged

\* Faulty variant of fetch_outcomes: requests.get without a timeout can
\* also block for ever.
fetch_outcomes_no_timeout == {"ok", "error", "blocked"}

\* what requests.get(jwks_url, timeout=10), raise_for_status and json can
\* do (lines 339-341): answer a key set, or raise (connection error,
\* timeout, HTTP error status, bad JSON)
fetch_outcomes == {"ok", "error"}

\* Faulty variant of fetch_jwks: a failed fetch is an empty key set.
fetch_jwks_swallow(url, outcome) ==
    IF outcome = "ok"
    THEN [raised |-> None, jwks |-> RemoteJwks(url)]
    ELSE [raised |-> None, jwks |-> << >>]

\* lines 339-341 for one outcome: the exception raised, the key set read
fetch_jwks(url, outcome) ==
    IF outcome = "ok"
    THEN [raised |-> None, jwks |-> RemoteJwks(url)]
    ELSE [raised |-> "RequestException", jwks |-> << >>]

\* Faulty variant of cache_store: an entry already there is kept.
cache_store_keep_first(cache, url, jwks, t) ==
    [u \in DOMAIN cache \cup {url} |->
        IF u \in DOMAIN cache THEN cache[u]
        ELSE [jwks |-> jwks, expires |-> t + JwksTTL]]

\* _get_jwks, the cache write (lines 343-346)
cache_store(cache, url, jwks, t) ==
    [u \in DOMAIN cache \cup {url} |->
        IF u = url THEN [jwks |-> jwks, expires |-> t + JwksTTL]
        ELSE cache[u]]

\* Faulty variant of after_fetch_error: the request stays where it is and
\* fetches again.
after_fetch_error_retry(r) == r

\* the request after requests.get raised: nothing between _get_jwks and
\* lti_launch's except clause catches the exception, the request is over
after_fetch_error(r) == IdleReq

\* Faulty variant of cache_after_fetch_error: the entry of the URL is
\* dropped.
cache_after_fetch_error_evict(cache, url) ==
    [u \in DOMAIN cache \ {url} |-> cache[u]]

\* the cache after requests.get, raise_for_status or json raised: the
\* write at lines 343-346 was not reached
cache_after_fetch_error(cache, url) == cache

\* _get_jwks from requests.get on (lines 339-348) for one outcome of the
\* fetch; a fetch that blocks leaves the request waiting
LaunchFetch(w, outcome) ==
    LET r == req[w]
        url == r.platform.auth_jwks_url
        res == fetch_jwks(url, outcome)
    IN
    /\ r.pc = "fetch"
    /\ IF outcome = "blocked"
       THEN /\ jwks_cache' = jwks_cache
            /\ req' = [req EXCEPT ![w] = [r EXCEPT !.pc = "blocked"]]
            /\ launch_resp' = NoResp
       ELSE IF res.raised = None
       THEN /\ jwks_cache' = cache_store(jwks_cache, url, res.jwks, now)
            /\ req' = [req EXCEPT ![w] = [r EXCEPT !.pc = "validate",
                                                   !.jwks = res.jwks]]
            /\ launch_resp' = NoResp
       ELSE /\ jwks_cache' = cache_after_fetch_error(jwks_cache, url)
            /\ req' = [req EXCEPT ![w] = after_fetch_error(r)]
            /\ launch_resp' = Failed(r.state, res.raised)
    /\ UNCHANGED << state_store, sessions, n_sessions, n_launches, issued_for >>
    /\ LaunchUnchanged

\* Faulty variant of validate_launch: the nonce is not compared.
validate_launch_no_nonce(token, jwks, platform, stored_state, t) ==
    LET res == _validate_jwt(token, jwks, platform, t)
    IN  IF res # "ok" THEN res ELSE None

\* handle_launch, the JWT validation and the nonce check (lines 181-189):
\* None, or the error the launch fails with
validate_launch(token, jwks, platform, stored_state, t) ==
    LET res == _validate_jwt(token, jwks, platform, t)
    IN  IF res # "ok" THEN res
        ELSE IF token.nonce # stored_state.nonce THEN "Invalid nonce"
        ELSE None

\* Faulty variant of cleanup_state: the entry is left in the store.
cleanup_state_skip(store, state) == store

\* Faulty variant of cleanup_state: every entry is removed.
cleanup_state_all(store, state) == << >>

\* handle_launch's "clean up state" (lines 197-198)
cleanup_state(store, state) == _delete_state(store, state)

\* handle_launch from the JWT validation to the return (lines 181-200),
\* for a request whose id_token parameter is `token`
LaunchValidate(w, token) ==
    LET r == req[w]
        invalid == validate_launch(token, r.jwks, r.platform, r.stored_state,
                                   now)
        error == IF invalid # None THEN invalid
                 ELSE _extract_service_endpoints(token).raised
    IN
    /\ r.pc = "validate"
    /\ IF error # None
       THEN /\ req' = [req EXCEPT ![w] = IdleReq]
            /\ launch_resp' = Failed(r.state, error)
            /\ state_store' = state_store
       ELSE /\ req' = [req EXCEPT ![w] =
                   [r EXCEPT !.pc = "create_session", !.decoded = token,
                             !.context = _extract_lti_context(token)]]
            /\ launch_resp' = NoResp
            /\ state_store' = cleanup_state(state_store, r.state)
    /\ UNCHANGED << jwks_cache, sessions, n_sessions, n_launches, issued_for >>
    /\ LaunchUnchanged

\* Faulty variant of _create_session: every session's TTL starts anew.
_create_session_sliding(store, token, context, services, t, redis) ==
    IF redis
    THEN [k \in DOMAIN store \cup {token} |->
             IF k = token
             THEN [context |-> context, services |-> services,
                   created_at |-> t, expires |-> t + SessionTTL]
             ELSE [store[k] EXCEPT !.expires = t + SessionTTL]]
    ELSE store

\* _create_session, lines 226-241: the session store after the call.
\* setex writes the entry with its TTL; without a Redis client nothing is
\* written.
_create_session(store, token, context, services, t, redis) ==
    IF redis
    THEN [k \in DOMAIN store \cup {token} |->
             IF k = token
             THEN [context |-> context, services |-> services,
                   created_at |-> t, expires |-> t + SessionTTL]
             ELSE store[k]]
    ELSE store

\* _create_session and the 200 response of lti_launch (lines 196-208)
LaunchCreateSession(w) ==
    LET r == req[w]
        token == token_urlsafe(n_sessions)
    IN
    /\ r.pc = "create_session"
    /\ n_sessions' = n_sessions + 1
    /\ sessions' = _create_session(sessions, token, r.context,
                                   _extract_service_endpoints(r.decoded).services,
                                   now, redis_client)
    /\ req' = [req EXCEPT ![w] = IdleReq]
    /\ launch_resp' = [status |-> 200, error |-> None,
                       session_token |-> token,
                       user_role |-> r.context.user_role, state |-> r.state]
    /\ issued_for' = [s \in DOMAIN issued_for \cup {r.state} |->
                         IF s = r.state
                         THEN (IF s \in DOMAIN issued_for THEN issued_for[s]
                               ELSE {}) \cup {token}
                         ELSE issued_for[s]]
    /\ UNCHANGED << state_store, jwks_cache, n_launches >>
    /\ LaunchUnchanged

-----------------------------------------------------------------------------
(* Time *)

Tick ==
    /\ now < MaxTime
    /\ now' = now + 1
    /\ login_resp' = NoLoginResp
    /\ launch_resp' = NoResp
    /\ UNCHANGED << platform_configs, registry_vars, call_vars, state_store, jwks_cache,
                    redis_client,
                    sessions, n_logins, n_sessions, n_launches, req,
                    issued_for, jwt_in, jwt_out, role_in, role_out,
                    session_ret, g >>

-----------------------------------------------------------------------------
(* The protocol *)

Next ==
    \/ \E iss \in ProtocolIssuers, h \in LoginHints, u \in TargetLinkUris,
          m \in MessageHints : HandleLogin(iss, h, u, m)
    \/ \E w \in Workers, has_token \in BOOLEAN, s \in LaunchStates :
          LaunchBegin(w, has_token, s)
    \/ \E w \in Workers : LaunchGetJwks(w)
    \/ \E w \in Workers, o \in fetch_outcomes : LaunchFetch(w, o)
    \/ \E w \in Workers, t \in LaunchTokens : LaunchValidate(w, t)
    \/ \E w \in Workers : LaunchCreateSession(w)
    \/ Tick

Spec == Init /\ [][Next]_vars

-----------------------------------------------------------------------------
(* The protocol with a Redis that answered the ping at start-up and can   *)
(* fail afterwards                                                        *)

\* _create_session when redis_client.setex raises (line 241): the token
\* is already drawn, nothing is stored, and lti_launch answers the
\* exception with 400 (lines 210-212)
LaunchCreateSessionRedisError(w) ==
    LET r == req[w]
    IN
    /\ r.pc = "create_session"
    /\ redis_client
    /\ n_sessions' = n_sessions + 1
    /\ req' = [req EXCEPT ![w] = IdleReq]
    /\ launch_resp' = Failed(r.state, "ConnectionError")
    /\ UNCHANGED << state_store, jwks_cache, sessions, n_launches,
                    issued_for >>
    /\ LaunchUnchanged

NextRedis ==
    \/ Next
    \/ \E w \in Workers : LaunchCreateSessionRedisError(w)

SpecRedis == Init /\ [][NextRedis]_vars

-----------------------------------------------------------------------------
(* The protocol with its scheduling: a request that was received is       *)
(* carried on by its worker, and requests.get returns or raises within    *)
(* its timeout (src/lti13.py line 339)                                    *)

\* the id_tokens presented: each platform's own token for each nonce
LiveTokens == {GoodToken(p, n) : p \in {"bb", "canvas"}, n \in Nonces}

LaunchStep(w) ==
    \/ LaunchGetJwks(w)
    \/ \E o \in fetch_outcomes : LaunchFetch(w, o)
    \/ \E t \in LiveTokens : LaunchValidate(w, t)
    \/ LaunchCreateSession(w)

\* the requests of one user of the registered platform
NextLive ==
    \/ HandleLogin("https://lms.example.edu", "u42", "https://tool/launch",
                   None)
    \/ \E w \in Workers, s \in LaunchStates : LaunchBegin(w, TRUE, s)
    \/ \E w \in Workers : LaunchStep(w)
    \/ Tick

SpecLive ==
    /\ Init
    /\ [][NextLive]_vars
    /\ \A w \in Workers : WF_vars(LaunchStep(w))

-----------------------------------------------------------------------------
(* The platform registry on its own: register_platform and                *)
(* _get_platform_by_issuer on an application that starts with no          *)
(* platform (LTI13_PLATFORMS defaults to {}, src/lti13.py line 68)        *)

RegistryIds == {"bb", "canvas"}

\* the configurations registered: each platform's own, one with another
\* client_id, and one lacking each of issuer, client_id, auth_jwks_url,
\* auth_login_url (a key the dict lacks reads as None)
ConfigInputs ==
    LET bb == InitialPlatforms["bb"]
    IN  { bb, InitialPlatforms["canvas"],
          [bb EXCEPT !.client_id = "tool-789"],
          [bb EXCEPT !.issuer = None],
          [bb EXCEPT !.client_id = None],
          [bb EXCEPT !.auth_jwks_url = None],
          [bb EXCEPT !.auth_login_url = None] }

InitRegistry ==
    /\ now = 0
    /\ platform_configs = << >>
    /\ platform_order = << >>
    /\ registry_ret = None
    /\ lookup = NoLookup
    /\ state_store = << >>
    /\ jwks_cache = << >>
    /\ redis_client = TRUE
    /\ sessions = << >>
    /\ n_logins = 0
    /\ n_sessions = 0
    /\ n_launches = 0
    /\ login_resp = NoLoginResp
    /\ launch_resp = NoResp
    /\ req = [w \in Workers |-> IdleReq]
    /\ issued_for = << >>
    /\ session_ret = NoSessionRet
    /\ g = NoG
    /\ NoSvcCall
    /\ NoGuardCall
    /\ NoJwtCall
    /\ NoRoleCall

\* Faulty variant of register_platform: the dict is replaced by one that
\* holds the new configuration alone.
register_platform_replace_all(configs, platform_id, config) ==
    [q \in {platform_id} |-> config]

\* self.platform_configs[platform_id] = config (line 93)
register_platform(configs, platform_id, config) ==
    [q \in DOMAIN configs \cup {platform_id} |->
        IF q = platform_id THEN config ELSE configs[q]]

\* register_platform (lines 79-94): the configuration is stored as given;
\* a new key goes to the end of the dict, a key already there keeps its
\* place
RegisterPlatform(platform_id, config) ==
    /\ platform_configs' = register_platform(platform_configs, platform_id,
                                             config)
    /\ platform_order' = IF platform_id \in DOMAIN platform_configs
                         THEN platform_order
                         ELSE Append(platform_order, platform_id)
    /\ registry_ret' = None
    /\ UNCHANGED << now, lookup, call_vars, state_store, jwks_cache, redis_client,
                    sessions, n_logins, n_sessions, n_launches, login_resp,
                    launch_resp, req, issued_for, jwt_in, jwt_out, role_in,
                    role_out, session_ret, g >>

\* _get_platform_by_issuer (lines 324-329) for one issuer
LookupByIssuer(issuer) ==
    /\ lookup' = [issuer |-> issuer,
                  platform |-> _get_platform_by_issuer(platform_configs,
                                                       issuer)]
    /\ platform_configs' = registry_after_lookup(platform_configs, issuer)
    /\ UNCHANGED << now, platform_order, registry_ret, call_vars, state_store,
                    jwks_cache, redis_client, sessions, n_logins, n_sessions,
                    n_launches, login_resp, launch_resp, req, issued_for,
                    jwt_in, jwt_out, role_in, role_out, session_ret, g >>

NextRegistry ==
    \/ \E pid \in RegistryIds, config \in ConfigInputs :
          RegisterPlatform(pid, config)
    \/ \E issuer \in Issuers : LookupByIssuer(issuer)

SpecRegistry == InitRegistry /\ [][NextRegistry]_vars

-----------------------------------------------------------------------------
(* _validate_jwt on its own: every token over the claim values below,     *)
(* against every key set and platform configuration below                 *)

AllTokens ==
    [alg : {"RS256", "HS256", "none"},
     kid : {"k1", "k2", "k9"},
     sig : {"keyA", "keyB", "keyEvil", Hmac("keyA"), SigNone},
     aud : {{}, {"tool-123"}, {"tool-456"}, {"tool-123", "tool-other"}},
     iss : {None, "https://lms.example.edu", "https://canvas.example.edu"},
     exp : {<< >>, << 1 >>},
     version : {None, "1.3.0", "1.2.0"},
     deployment_id : {None, "dep-1", "dep-2"},
     nonce : {1}, sub : {"u42"}, roles : {<< RoleInstructor >>},
     nrps : {<< >>}, ags : {<< >>}]

KeySets ==
    {RemoteJwks("https://lms.example.edu/jwks"),
     RemoteJwks("https://canvas.example.edu/jwks"), << >>}

\* the registered platforms, and "bb" with other deployment id lists
PlatformInputs ==
    {WithId(InitialPlatforms, p) : p \in {"bb", "canvas"}}
    \cup {[WithId(InitialPlatforms, "bb") EXCEPT !.deployment_ids = d] :
             d \in {{}, {"dep-1", "dep-2"}}}

InitJwt ==
    /\ InitProtocol
    /\ jwt_in \in [token : AllTokens, jwks : KeySets,
                   platform : PlatformInputs, t : 0..MaxTime]
    /\ jwt_out = None
    /\ NoRoleCall

ValidateJwt ==
    /\ jwt_out = None
    /\ jwt_out' = _validate_jwt(jwt_in.token, jwt_in.jwks, jwt_in.platform,
                                jwt_in.t)
    /\ UNCHANGED << now, platform_configs, registry_vars, call_vars,
                    state_store, jwks_cache,
                    redis_client, sessions, n_logins, n_sessions, n_launches,
                    login_resp, launch_resp, req, issued_for, jwt_in,
                    role_in, role_out, session_ret, g >>

NextJwt == ValidateJwt

SpecJwt == InitJwt /\ [][NextJwt]_vars

-----------------------------------------------------------------------------
(* The validation of handle_launch on its own (_validate_jwt, then the    *)
(* nonce check): tokens that fail any number of the checks at once,       *)
(* against the key set and configuration of "bb" and a stored nonce 1     *)

OrderTokens ==
    {[GoodToken("bb", n) EXCEPT !.kid = k, !.sig = sg, !.aud = a,
                                !.exp = e, !.version = v,
                                !.deployment_id = d] :
        n \in {1, 2}, k \in {"k1", "k9"}, sg \in {"keyA", "keyEvil"},
        a \in {{"tool-123"}, {"tool-456"}}, e \in {<< >>, << 1 >>},
        v \in {"1.3.0", "1.2.0"}, d \in {"dep-1", "dep-2"}}

InitOrder ==
    /\ InitProtocol
    /\ NoRoleCall
    /\ jwt_in \in [token : OrderTokens,
                   jwks : {RemoteJwks("https://lms.example.edu/jwks")},
                   platform : {WithId(InitialPlatforms, "bb")},
                   stored_state : {[NoState EXCEPT !.nonce = 1]},
                   t : 0..MaxTime]
    /\ jwt_out = "pending"

ValidateLaunch ==
    /\ jwt_out = "pending"
    /\ jwt_out' = validate_launch(jwt_in.token, jwt_in.jwks, jwt_in.platform,
                                  jwt_in.stored_state, jwt_in.t)
    /\ UNCHANGED << now, platform_configs, registry_vars, call_vars,
                    state_store, jwks_cache, redis_client, sessions, n_logins,
                    n_sessions, n_launches, login_resp, launch_resp, req,
                    issued_for, jwt_in, role_in, role_out, session_ret, g >>

NextOrder == ValidateLaunch

SpecOrder == InitOrder /\ [][NextOrder]_vars

-----------------------------------------------------------------------------
(* Login initiation on its own: every request over the parameter values   *)
(* below, among them a login_hint that holds '&' and '='                  *)

LoginHintsAll == LoginHints \cup {"u42&lti_message_hint=forged"}
TargetLinkUrisAll == TargetLinkUris \cup {None}
MessageHintsAll == MessageHints \cup {"hint-7"}

NextLogin ==
    \/ \E iss \in Issuers, h \in LoginHintsAll, u \in TargetLinkUrisAll,
          m \in MessageHintsAll : HandleLogin(iss, h, u, m)
    \/ Tick

SpecLogin == Init /\ [][NextLogin]_vars

(* The redirect URL as its receiver reads it: the query string cut at     *)
(* each '&', each item cut at its first '='.                              *)

RECURSIVE SplitAt(_, _, _)
SplitAt(pieces, sep, cur) ==
    IF pieces = << >> THEN << cur >>
    ELSE IF Head(pieces) = sep
         THEN << cur >> \o SplitAt(Tail(pieces), sep, << >>)
    ELSE SplitAt(Tail(pieces), sep, Append(cur, Head(pieces)))

ParseItem(item) ==
    LET eqs == {i \in 1..Len(item) : item[i] = "="}
    IN  IF eqs = {} THEN [key |-> item, value |-> << >>]
        ELSE LET i == CHOOSE i \in eqs : \A j \in eqs : i <= j
             IN  [key |-> SubSeq(item, 1, i - 1),
                  value |-> SubSeq(item, i + 1, Len(item))]

parse_qsl(query) ==
    LET items == SplitAt(query, "&", << >>)
    IN  [i \in 1..Len(items) |-> ParseItem(items[i])]

\* the values the URL gives for parameter k, in order
QueryValues(query, k) ==
    LET IsK(item) == item.key = << k >>
        items == SelectSeq(parse_qsl(query), IsK)
    IN  [i \in 1..Len(items) |-> items[i].value]

-----------------------------------------------------------------------------
(* The session store on its own: _create_session calls and requests that  *)
(* present a session token, with and without a Redis client               *)

\* _create_session calls over a run
MaxSessions == 2

SessionContexts ==
    {[user_id |-> "u42", user_role |-> r] :
        r \in {"student", "instructor", "admin"}}

SessionServices ==
    {NoServices,
     [nrps |-> << nrps_descriptor(JsonObject({"context_memberships_url"})) >>,
      ags |-> << >>]}

\* X-LTI-Token header: 0 is no header, MaxSessions + 1 is never issued
LtiTokens == 0..(MaxSessions + 1)

InitSession ==
    /\ InitStores
    /\ redis_client \in BOOLEAN
    /\ NoSvcCall
    /\ NoJwtCall
    /\ NoRoleCall

CreateSession(context, services) ==
    LET token == token_urlsafe(n_sessions)
    IN
    /\ n_sessions < MaxSessions
    /\ n_sessions' = n_sessions + 1
    /\ sessions' = _create_session(sessions, token, context, services, now,
                                   redis_client)
    /\ session_ret' = [token |-> token, context |-> context,
                       services |-> services]
    /\ UNCHANGED << now, platform_configs, registry_vars, call_vars,
                    state_store, jwks_cache,
                    redis_client, n_logins, n_launches, login_resp,
                    launch_resp, req, issued_for, jwt_in, jwt_out, role_in,
                    role_out, g >>

\* lti_auth.validate_token (src/orchestrator.py:90): LTI13Auth defines no
\* such method, the attribute lookup raises
validate_token(lti_token) ==
    [raised |-> "AttributeError", value |-> NoContext]

\* before_request, lines 86-95: the value of g.lti_context (NoContext is
\* None)
before_request(lti_token) ==
    IF lti_token # 0
    THEN LET res == validate_token(lti_token)
         IN  IF res.raised # None THEN NoContext ELSE res.value
    ELSE NoContext

BeforeRequest(lti_token) ==
    /\ lti_token <= n_sessions + 1
    /\ g' = [lti_token |-> lti_token,
             lti_context |-> before_request(lti_token)]
    /\ UNCHANGED << now, platform_configs, registry_vars, call_vars,
                    state_store, jwks_cache,
                    redis_client, sessions, n_logins, n_sessions, n_launches,
                    login_resp, launch_resp, req, issued_for, jwt_in, jwt_out,
                    role_in, role_out, session_ret >>

NextSession ==
    \/ \E c \in SessionContexts, sv \in SessionServices : CreateSession(c, sv)
    \/ \E tok \in LtiTokens : BeforeRequest(tok)
    \/ Tick

SpecSession == InitSession /\ [][NextSession]_vars

-----------------------------------------------------------------------------
(* The route guards require_lti_auth and require_instructor               *)
(* (src/lti13.py lines 392-420)                                           *)

Guards == {"require_lti_auth", "require_instructor"}

\* LTIContext.is_instructor (lines 35-37)
is_instructor(lti_context) ==
    lti_context.user_role \in
        {"instructor", "admin", "urn:lti:role:ims/lis/Instructor"}

\* What a guard does with the lti_context it read: the status it answers
\* with, or status 0 and handler TRUE when it calls the route's handler.
require_lti_auth(lti_context) ==
    IF lti_context = NoContext
    THEN [status |-> 401, handler |-> FALSE]
    ELSE [status |-> 0, handler |-> TRUE]

\* Faulty variant of require_instructor: the role is not looked at.
require_instructor_any_role(lti_context) == require_lti_auth(lti_context)

require_instructor(lti_context) ==
    IF lti_context = NoContext
    THEN [status |-> 401, handler |-> FALSE]
    ELSE IF ~is_instructor(lti_context)
    THEN [status |-> 403, handler |-> FALSE]
    ELSE [status |-> 0, handler |-> TRUE]

run_guard(guard, lti_context) ==
    IF guard = "require_lti_auth" THEN require_lti_auth(lti_context)
    ELSE require_instructor(lti_context)

(* The guards on their own, run on no context and on the context of each  *)
(* session stored                                                         *)

ResolvedContexts == {NoContext} \cup {sessions[k].context : k \in DOMAIN sessions}

GuardCall(guard, lti_context) ==
    /\ lti_context \in ResolvedContexts
    /\ guard_in' = [guard |-> guard, lti_context |-> lti_context]
    /\ guard_out' = run_guard(guard, lti_context)
    /\ UNCHANGED << now, platform_configs, registry_vars, state_store,
                    jwks_cache, redis_client, sessions, n_logins, n_sessions,
                    n_launches, login_resp, launch_resp, req, issued_for,
                    jwt_in, jwt_out, role_in, role_out, session_ret, g,
                    svc_in, svc_out >>

NextGuard ==
    \/ \E c \in SessionContexts, sv \in SessionServices : CreateSession(c, sv)
    \/ \E guard \in Guards, c \in SessionContexts \cup {NoContext} :
          GuardCall(guard, c)
    \/ Tick

SpecGuard == InitSession /\ [][NextGuard]_vars

(* A request to a guarded route: before_request, then the route's guard   *)

\* getattr(request, 'lti_context', None) (lines 396, 409): no code sets
\* the attribute on the request (before_request sets g.lti_context), the
\* default is read
request_lti_context(g_after) == NoContext

RouteRequest(lti_token, guard) ==
    LET g_after == [lti_token |-> lti_token,
                    lti_context |-> before_request(lti_token)]
        lti_context == request_lti_context(g_after)
    IN
    /\ lti_token <= n_sessions + 1
    /\ g' = g_after
    /\ guard_in' = [guard |-> guard, lti_context |-> lti_context]
    /\ guard_out' = run_guard(guard, lti_context)
    /\ UNCHANGED << now, platform_configs, registry_vars, state_store,
                    jwks_cache, redis_client, sessions, n_logins, n_sessions,
                    n_launches, login_resp, launch_resp, req, issued_for,
                    jwt_in, jwt_out, role_in, role_out, session_ret,
                    svc_in, svc_out >>

NextRoutes ==
    \/ \E c \in SessionContexts, sv \in SessionServices : CreateSession(c, sv)
    \/ \E tok \in LtiTokens, guard \in Guards : RouteRequest(tok, guard)
    \/ Tick

SpecRoutes == InitSession /\ [][NextRoutes]_vars

-----------------------------------------------------------------------------
(* _extract_service_endpoints on its own: the validated token of "bb"     *)
(* with every namesroleservice and ags claim below                        *)

NrpsClaims ==
    {<< >>, << JsonString >>}
    \cup {<< JsonObject(k) >> :
             k \in SUBSET {"context_memberships_url", "service_versions"}}

AgsClaims ==
    {<< >>, << JsonString >>}
    \cup {<< JsonObject(k) >> : k \in SUBSET {"lineitems", "lineitem", "scope"}}

ServiceTokens ==
    {[GoodToken("bb", 1) EXCEPT !.nrps = a, !.ags = b] :
        a \in NrpsClaims, b \in AgsClaims}

InitServices ==
    /\ InitStores
    /\ redis_client = TRUE
    /\ NoJwtCall
    /\ NoRoleCall
    /\ svc_in \in ServiceTokens
    /\ svc_out = NoSvcOut

ExtractServiceEndpoints ==
    LET res == _extract_service_endpoints(svc_in)
    IN
    /\ ~svc_out.done
    /\ svc_out' = [raised |-> res.raised, services |-> res.services,
                   done |-> TRUE]
    /\ UNCHANGED << now, platform_configs, registry_vars, state_store,
                    jwks_cache, redis_client, sessions, n_logins, n_sessions,
                    n_launches, login_resp, launch_resp, req, issued_for,
                    jwt_in, jwt_out, role_in, role_out, session_ret, g,
                    svc_in, guard_in, guard_out >>

NextServices == ExtractServiceEndpoints

SpecServices == InitServices /\ [][NextServices]_vars

-----------------------------------------------------------------------------
(* _determine_user_role on its own: every role list up to MaxRoles long   *)
(* over the role strings below                                            *)

\* longest role list
MaxRoles == 3

RoleUris ==
    {RoleAdmin, "Administrator", RoleInstructor,
     "urn:lti:role:ims/lis/Instructor", RoleLearner, "garbage"}

RoleLists == UNION {[1..n -> RoleUris] : n \in 0..MaxRoles}

InitRole ==
    /\ InitProtocol
    /\ NoJwtCall
    /\ role_in \in RoleLists
    /\ role_out = None

DetermineUserRole ==
    /\ role_out = None
    /\ role_out' = _determine_user_role(role_in)
    /\ UNCHANGED << now, platform_configs, registry_vars, call_vars,
                    state_store, jwks_cache,
                    redis_client, sessions, n_logins, n_sessions, n_launches,
                    login_resp, launch_resp, req, issued_for, jwt_in, jwt_out,
                    role_in, session_ret, g >>

NextRole == DetermineUserRole

SpecRole == InitRole /\ [][NextRole]_vars

-----------------------------------------------------------------------------
(* Claims *)

\* C1: of the launches that present the same state token at most one
\* succeeds: at most one session is ever issued per login state entry.
C1_AtMostOneSessionPerState ==
    \A s \in DOMAIN issued_for : Cardinality(issued_for[s]) <= 1


(* The seven checks of a launch, stated on the token, the key set, the     *)
(* platform configuration and the login state entry.                      *)

\* 1-2: the header's key id names a key of the key set
KeyResolved(token, jwks) ==
    \E i \in 1..Len(jwks) : jwks[i].kid = token.kid

\* 3: the token is signed, with RS256, by a key of the set that has its kid
SignedByKeySet(token, jwks) ==
    /\ token.alg = "RS256"
    /\ \E i \in 1..Len(jwks) : jwks[i].kid = token.kid /\ jwks[i].key = token.sig

\* 4: audience, issuer and expiry, as the code verifies them
StandardClaimsValid(token, platform, t) ==
    /\ platform.client_id \in token.aud
    /\ token.iss = platform.issuer
    /\ token.exp = << >> \/ token.exp[1] > t

\* 5
VersionValid(token) == token.version = "1.3.0"

\* 6
DeploymentAllowed(token, platform) ==
    /\ token.deployment_id # None
    /\ token.deployment_id \in platform.deployment_ids

\* 7
NonceMatches(token, stored_state) == token.nonce = stored_state.nonce

AllSevenChecks(token, jwks, platform, stored_state, t) ==
    /\ KeyResolved(token, jwks)
    /\ SignedByKeySet(token, jwks)
    /\ StandardClaimsValid(token, platform, t)
    /\ VersionValid(token)
    /\ DeploymentAllowed(token, platform)
    /\ NonceMatches(token, stored_state)

\* worker w's launch passes validation in this step (LAUNCH_VALIDATED)
Validated(w) == req[w].pc = "validate" /\ req'[w].pc = "create_session"

\* worker w's launch passes the state check in this step
StateAccepted(w) == req[w].pc = "idle" /\ req'[w].pc = "get_jwks"

\* a launch that presented state token s has passed validation
Taken(s) ==
    \/ s \in DOMAIN issued_for
    \/ \E w \in Workers : req[w].pc = "create_session" /\ req[w].state = s

LoginNonce(s) == s

\* C3: a validated launch carries the nonce of the login attempt whose
\* state it presented; a token with any other nonce is rejected.
C3_NonceMismatchRejected ==
    \A w \in Workers :
        req[w].pc = "create_session"
        => /\ req[w].decoded.nonce = req[w].stored_state.nonce
           /\ req[w].decoded.nonce = LoginNonce(req[w].state)

\* a token of login attempt 1, valid in all else, was replayed against the
\* state of login attempt 2 and rejected
C3_Witness ==
    /\ launch_resp.status = 400
    /\ launch_resp.error = "Invalid nonce"
    /\ launch_resp.state = 2

StateErrors == {"Missing id_token", "Missing state",
                "Invalid or expired state", "Unknown platform"}

\* C5: after a launch that found its state entry and then failed, the
\* state token is absent from the store.
C5_FailedLaunchConsumesState ==
    (launch_resp.status = 400 /\ launch_resp.error \notin StateErrors)
    => launch_resp.state \notin DOMAIN state_store

C7_AudEqualsClientId ==
    [][ \A w \in Workers :
           Validated(w)
           => LET cfg == platform_configs[req[w].stored_state.platform_id]
                  token == req'[w].decoded
              IN  /\ token.aud = {cfg.client_id}
                  /\ token.iss = cfg.issuer
                  /\ token.exp = << >> \/ token.exp[1] > now ]_vars

\* C8: _validate_jwt accepts a token only if its deployment id is present
\* and is one of the platform's deployment ids.
C8_DeploymentChecked ==
    jwt_out = "ok"
    => /\ jwt_in.token.deployment_id # None
       /\ jwt_in.token.deployment_id \in jwt_in.platform.deployment_ids

\* a token valid in all else was rejected for its deployment id
C8_Witness ==
    /\ jwt_out = "Invalid deployment_id"
    /\ jwt_in.token.deployment_id # None
    /\ jwt_in.token.deployment_id \notin jwt_in.platform.deployment_ids

\* C9: _validate_jwt accepts a token only if a key of the key set has the
\* token's key id and is the key that signed it.
C9_UnknownKeyRejected ==
    jwt_out = "ok"
    => \E i \in 1..Len(jwt_in.jwks) :
          /\ jwt_in.jwks[i].kid = jwt_in.token.kid
          /\ jwt_in.jwks[i].key = jwt_in.token.sig

\* a token naming a key of the set but signed by another key was rejected
C9_Witness ==
    /\ jwt_out = "InvalidSignatureError"
    /\ KeyResolved(jwt_in.token, jwt_in.jwks)
    /\ jwt_in.token.alg = "RS256"
    /\ jwt_in.token.sig = "keyEvil"

\* C10: _validate_jwt accepts no token whose header names an algorithm
\* other than RS256.
C10_OnlyRS256 ==
    jwt_out = "ok" => jwt_in.token.alg = "RS256"

\* an HS256 token whose MAC is keyed with the platform's public key, valid
\* in all else, was rejected
C10_Witness ==
    /\ jwt_out = "InvalidAlgorithmError"
    /\ jwt_in.token.alg = "HS256"
    /\ FindKey(jwt_in.jwks, jwt_in.token.kid) # NoKey
    /\ jwt_in.token.sig = Hmac(FindKey(jwt_in.jwks, jwt_in.token.kid))
    /\ StandardClaimsValid(jwt_in.token, jwt_in.platform, jwt_in.t)
    /\ VersionValid(jwt_in.token)
    /\ DeploymentAllowed(jwt_in.token, jwt_in.platform)


HasAdminRole(roles) == \E i \in 1..Len(roles) : roles[i] \in admin_roles
HasInstructorRole(roles) ==
    \E i \in 1..Len(roles) : roles[i] \in instructor_roles

\* C11: every role list that contains an administrator-role URI yields
\* admin, wherever the URI stands in the list.
C11_AdminWinsAnywhere ==
    (role_out # None /\ HasAdminRole(role_in)) => role_out = "admin"

\* C12: a role list with no recognized role URI yields student, and a list
\* with an instructor-role URI and no administrator-role URI yields
\* instructor.
C12_RoleFailSafe ==
    role_out # None
    => /\ (~HasAdminRole(role_in) /\ ~HasInstructorRole(role_in))
             => role_out = "student"
       /\ (HasInstructorRole(role_in) /\ ~HasAdminRole(role_in))
             => role_out = "instructor"

\* a list of unrecognized strings only was mapped to student
C12_Witness ==
    /\ role_out = "student"
    /\ Len(role_in) >= 2
    /\ \E i \in 1..Len(role_in) : role_in[i] = "garbage"


\* the session tokens returned so far
IssuedTokens == UNION {issued_for[s] : s \in DOMAIN issued_for}

RegisteredIssuers ==
    {platform_configs[pid].issuer : pid \in DOMAIN platform_configs}

\* C14: a login initiation whose issuer matches no registered platform
\* fails, with "Unknown platform issuer" when its parameters are present,
\* and writes nothing: the state store is unchanged and the response holds
\* no state, nonce or redirect URL.
C14_UnknownIssuerWritesNothing ==
    [][ \A iss \in Issuers, h \in LoginHintsAll, u \in TargetLinkUrisAll,
           m \in MessageHintsAll :
           (iss \notin RegisteredIssuers /\ HandleLogin(iss, h, u, m))
           => /\ login_resp'.status = 400
              /\ (iss # None /\ h # None)
                    => login_resp'.error = "Unknown platform issuer"
              /\ state_store' = state_store
              /\ login_resp'.state = 0
              /\ login_resp'.nonce = 0
              /\ login_resp'.redirect_url = << >> ]_vars

\* an unknown issuer was refused while a login was pending, whose entry
\* is still in the store
C14_Witness ==
    /\ login_resp.status = 400
    /\ login_resp.error = "Unknown platform issuer"
    /\ state_store # << >>

\* C15: a successful login initiation writes exactly one state entry,
\* keyed by the returned state and holding the platform id, the nonce and
\* the target-link-uri, and its redirect URL gives state and nonce as
\* stored, the platform's client_id, the fixed parameters, the redirect_uri
\* and the login_hint, and an lti_message_hint if and only if one was
\* supplied.
C15_LoginDescriptor ==
    [][ \A iss \in Issuers, h \in LoginHintsAll, u \in TargetLinkUrisAll,
           m \in MessageHintsAll :
           (HandleLogin(iss, h, u, m) /\ login_resp'.status = 200)
           => LET st == login_resp'.state
                  url == login_resp'.redirect_url
                  Only(v) == << v >>
              IN  /\ DOMAIN state_store' = DOMAIN state_store \cup {st}
                  /\ st \notin DOMAIN state_store
                  /\ \A s \in DOMAIN state_store :
                        state_store'[s] = state_store[s]
                  /\ state_store'[st].data.platform_id \in
                        DOMAIN platform_configs
                  /\ platform_configs[state_store'[st].data.platform_id].issuer
                        = iss
                  /\ state_store'[st].data.target_link_uri = u
                  /\ QueryValues(url, "state") = Only(Only(ToString(st)))
                  /\ QueryValues(url, "nonce") =
                        Only(Only(ToString(state_store'[st].data.nonce)))
                  /\ QueryValues(url, "client_id") =
                        Only(Only(platform_configs[
                            state_store'[st].data.platform_id].client_id))
                  /\ QueryValues(url, "scope") = Only(Only("openid"))
                  /\ QueryValues(url, "response_type") = Only(Only("id_token"))
                  /\ QueryValues(url, "response_mode") = Only(Only("form_post"))
                  /\ QueryValues(url, "prompt") = Only(Only("none"))
                  /\ QueryValues(url, "redirect_uri") = Only(Only(RedirectUri))
                  /\ QueryValues(url, "login_hint") = Only(Chars(h))
                  /\ (QueryValues(url, "lti_message_hint") # << >>) <=> (m # None)
                  /\ m # None
                        => QueryValues(url, "lti_message_hint") = Only(Chars(m))
      ]_vars

C17_ReturnedTokenIsStored ==
    [][ \A c \in SessionContexts, sv \in SessionServices :
           CreateSession(c, sv)
           => /\ session_ret'.token \in DOMAIN sessions'
              /\ sessions'[session_ret'.token] =
                    [context |-> c, services |-> sv, created_at |-> now,
                     expires |-> now + SessionTTL] ]_vars

\* the session stored for token tok is present and its TTL has not elapsed
LiveSession(tok) ==
    tok \in DOMAIN sessions /\ now < sessions[tok].expires

\* C18: a request that presents a session token resolves to the context
\* stored for it when the token was issued and its TTL has not elapsed,
\* and to nothing otherwise.
C18_ResolveSession ==
    [][ \A tok \in LtiTokens :
           (tok # 0 /\ BeforeRequest(tok))
           => IF LiveSession(tok)
              THEN g'.lti_context = sessions[tok].context
              ELSE g'.lti_context = NoContext ]_vars

LaunchOrder ==
    {<< "idle", "get_jwks" >>, << "get_jwks", "validate" >>,
     << "get_jwks", "fetch" >>, << "fetch", "validate" >>,
     << "fetch", "idle" >>, << "validate", "create_session" >>,
     << "validate", "idle" >>, << "create_session", "idle" >>}

C21_IssueSessionAlwaysSucceeds ==
    [][\A w \in Workers :
          (req[w].pc = "create_session" /\ req'[w].pc = "idle")
          => /\ launch_resp'.status = 200
             /\ launch_resp'.session_token = token_urlsafe(n_sessions)]_vars

\* the body lti_launch answers a launch with when handle_launch fails in
\* its JWT validation or nonce check for the id_token `token`
\* (src/orchestrator.py lines 210-212: 'message' is str(e))
FailedValidationResponse(w, token) ==
    Failed(req[w].state,
           validate_launch(token, req[w].jwks, req[w].platform,
                           req[w].stored_state, now))

FailsValidation(w, token) ==
    validate_launch(token, req[w].jwks, req[w].platform,
                    req[w].stored_state, now) # None

\* C22: two launches of the same state that fail different checks of the
\* validator (key id, signature, claims, version, deployment id, nonce)
\* receive the same response
C22_FailureResponseUniform ==
    \A w \in Workers :
        req[w].pc = "validate"
        => \A t1, t2 \in LaunchTokens :
              (FailsValidation(w, t1) /\ FailsValidation(w, t2))
              => FailedValidationResponse(w, t1) =
                 FailedValidationResponse(w, t2)

\* the JWKS URL of the platform a request is bound to
JwksUrl(w) == req[w].platform.auth_jwks_url

Unexpired(url) ==
    /\ url \in DOMAIN jwks_cache
    /\ jwks_cache[url].expires > now

\* C23: a getKeys request made while the cached entry of its URL is
\* unexpired is served from the cache with no fetch; a request made when
\* the entry is absent or expired performs one fetch and is never served
\* the expired entry; only a fetch writes the cache
C23_FetchOnlyWhenExpired ==
    [][\A w \in Workers :
          /\ (req[w].pc = "get_jwks" /\ req'[w].pc # "get_jwks")
             => IF Unexpired(JwksUrl(w))
                THEN /\ req'[w].pc = "validate"
                     /\ req'[w].jwks = jwks_cache[JwksUrl(w)].jwks
                     /\ jwks_cache' = jwks_cache
                ELSE /\ req'[w].pc = "fetch"
                     /\ jwks_cache' = jwks_cache
          /\ (req[w].pc = "fetch" /\ req'[w].pc # "fetch")
             => req'[w].pc \in {"validate", "idle"}
          /\ (req[w].pc # "fetch" /\ req'[w].pc = "fetch")
             => req[w].pc = "get_jwks"
       /\ (jwks_cache' # jwks_cache
           => \E v \in Workers : req[v].pc = "fetch" /\ req'[v].pc = "validate")
      ]_vars

\* a request refetches a URL whose cached entry has expired
C23_Witness ==
    \E w \in Workers :
        /\ req[w].pc = "fetch"
        /\ JwksUrl(w) \in DOMAIN jwks_cache
        /\ jwks_cache[JwksUrl(w)].expires <= now

\* C24: when the fetch fails and the cache holds no entry for the URL,
\* the launch fails with the fetch error and no session is issued
C24_FetchFailureFailsLaunch ==
    [][\A w \in Workers :
          (LaunchFetch(w, "error") /\ JwksUrl(w) \notin DOMAIN jwks_cache)
          => /\ launch_resp' = Failed(req[w].state, "RequestException")
             /\ req'[w] = IdleReq
             /\ sessions' = sessions
             /\ n_sessions' = n_sessions
             /\ issued_for' = issued_for
             /\ jwks_cache' = jwks_cache]_vars

C24_Witness ==
    /\ launch_resp.status = 400
    /\ launch_resp.error = "RequestException"
    /\ jwks_cache = << >>

\* C25: under concurrent refetches of one URL the cache entry is absent
\* or the complete pair (key set, expiry) of one completed fetch, and
\* each completed fetch leaves its own pair (the last writer's stays)
C25_CacheEntryComplete ==
    /\ [](\A url \in DOMAIN jwks_cache :
             /\ jwks_cache[url].jwks = RemoteJwks(url)
             /\ \E t \in 0..now : jwks_cache[url].expires = t + JwksTTL)
    /\ [][\A w \in Workers :
             (req[w].pc = "fetch" /\ req'[w].pc = "validate")
             => /\ jwks_cache'[JwksUrl(w)] =
                      [jwks |-> req'[w].jwks, expires |-> now + JwksTTL]
                /\ \A u \in DOMAIN jwks_cache' \ {JwksUrl(w)} :
                      u \in DOMAIN jwks_cache /\ jwks_cache'[u] = jwks_cache[u]
          ]_vars

\* a request is refetching a URL whose entry a concurrent request, now
\* validating, wrote at an earlier time
C25_Witness ==
    \E w1, w2 \in Workers :
        /\ req[w1].pc = "validate"
        /\ req[w2].pc = "fetch"
        /\ JwksUrl(w1) = JwksUrl(w2)
        /\ JwksUrl(w2) \in DOMAIN jwks_cache
        /\ jwks_cache[JwksUrl(w2)].expires = now

Complete(config) ==
    /\ config.issuer # None
    /\ config.client_id # None
    /\ config.auth_jwks_url # None
    /\ config.auth_login_url # None

\* C27: register of a configuration that lacks issuer, client_id, JWKS URL
\* or login URL fails with ConfigError and stores nothing
C27_IncompleteConfigRejected ==
    [][\A pid \in RegistryIds, config \in ConfigInputs :
          (RegisterPlatform(pid, config) /\ ~Complete(config))
          => /\ registry_ret' = "ConfigError"
             /\ platform_configs' = platform_configs]_vars

\* C28: register stores the configuration under its platform id, in place
\* of an earlier one, and touches no other; lookupByIssuer returns a
\* stored configuration with the argument's issuer, as currently stored
\* for its platform id, and NotFound exactly when none has that issuer
C28_LookupReturnsStored ==
    [][/\ \A pid \in RegistryIds, config \in ConfigInputs :
             RegisterPlatform(pid, config)
             => /\ DOMAIN platform_configs' = DOMAIN platform_configs \cup {pid}
                /\ platform_configs'[pid] = config
                /\ \A q \in DOMAIN platform_configs \ {pid} :
                      platform_configs'[q] = platform_configs[q]
       /\ \A issuer \in Issuers :
             LookupByIssuer(issuer)
             => LET r == lookup'.platform
                IN  IF \E q \in DOMAIN platform_configs :
                           platform_configs[q].issuer = issuer
                    THEN /\ r # NoPlatform
                         /\ r.issuer = issuer
                         /\ r.id \in DOMAIN platform_configs
                         /\ r = WithId(platform_configs, r.id)
                    ELSE r = NoPlatform]_vars

\* a lookup returned the configuration that a second register of the
\* platform id stored
C28_Witness ==
    /\ lookup.issuer = "https://lms.example.edu"
    /\ lookup.platform.id = "bb"
    /\ lookup.platform.client_id = "tool-789"
    /\ "bb" \in DOMAIN platform_configs
    /\ platform_configs["bb"].client_id = "tool-789"
    /\ "canvas" \in DOMAIN platform_configs

\* C29: no two stored platform configurations have the same issuer
C29_IssuerUnique ==
    \A p, q \in DOMAIN platform_configs :
        p # q => platform_configs[p].issuer # platform_configs[q].issuer

\* C30: a login or a launch, succeeding or failing, leaves the platform
\* registry as it was
C30_FlowsLeaveRegistry ==
    [][/\ platform_configs' = platform_configs
       /\ platform_order' = platform_order]_vars

\* a login was answered and a launch of its state was answered, one with
\* a failure
C30_Witness ==
    /\ n_logins > 0
    /\ n_launches = MaxLaunches
    /\ launch_resp.status = 400
    /\ \E s \in DOMAIN issued_for : issued_for[s] # {}

Roles == {"student", "instructor", "admin"}

\* generate_report: the user_role handed to compliance_layer.sanitize_prompt
\* (src/orchestrator.py lines 303-310)
sanitize_prompt_user_role(lti_context) ==
    IF lti_context # NoContext THEN lti_context.user_role ELSE "student"

\* C31: every launch context constructed, every session stored, every
\* role answered and the user_role handed to the compliance layer is one
\* of student, instructor, admin
C31_RoleIsDerived ==
    /\ \A w \in Workers :
          req[w].context # NoContext => req[w].context.user_role \in Roles
    /\ \A k \in DOMAIN sessions : sessions[k].context.user_role \in Roles
    /\ launch_resp.status = 200 => launch_resp.user_role \in Roles
    /\ sanitize_prompt_user_role(g.lti_context) \in Roles

\* a session was stored for a token whose role list holds the Learner URI
C31_Witness ==
    \E k \in DOMAIN sessions : sessions[k].context.user_role = "student"

\* a claim is missing or is a JSON object
Wellformed(claim) == claim = << >> \/ claim[1].kind = "dict"

C33_GuardsFollowContext ==
    LET c == guard_in.lti_context
    IN  /\ guard_in.guard = "require_lti_auth"
           => IF c = NoContext
              THEN guard_out = [status |-> 401, handler |-> FALSE]
              ELSE guard_out.handler
        /\ guard_in.guard = "require_instructor"
           => /\ c = NoContext
                 => guard_out = [status |-> 401, handler |-> FALSE]
              /\ (c # NoContext /\ c.user_role = "student")
                 => guard_out = [status |-> 403, handler |-> FALSE]
              /\ (c # NoContext /\ c.user_role \in {"instructor", "admin"})
                 => guard_out.handler

\* require_instructor was run on a student's context
C33_Witness ==
    /\ guard_in.guard = "require_instructor"
    /\ guard_in.lti_context # NoContext
    /\ guard_in.lti_context.user_role = "student"
    /\ guard_out.status = 403

\* C37: a request whose session token resolves to a stored, unexpired
\* session is not answered 401 by the guard of its route
C37_LiveSessionPassesGuards ==
    [][\A tok \in LtiTokens, guard \in Guards :
          (RouteRequest(tok, guard) /\ tok # 0 /\ LiveSession(tok))
          => guard_out'.status # 401]_vars

\* C34: a launch attempts at most one JWKS fetch: the fetch is entered
\* from the cache lookup only and is left, whatever its outcome, for the
\* validation or for the end of the request; a fetch that fails ends the
\* request with a failure
C34_NoRetryWithinLaunch ==
    [][\A w \in Workers :
          /\ (req'[w].pc = "fetch" /\ req'[w] # req[w])
             => req[w].pc = "get_jwks"
          /\ \A o \in fetch_outcomes :
                LaunchFetch(w, o)
                => /\ req'[w].pc \in {"validate", "idle"}
                   /\ o = "error" => /\ req'[w].pc = "idle"
                                     /\ launch_resp'.status = 400
                                     /\ launch_resp'.state = req[w].state
      ]_vars

\* the last launch failed on its fetch, after the fetch of an earlier
\* launch had filled the cache
C34_Witness ==
    /\ launch_resp.error = "RequestException"
    /\ n_launches = MaxLaunches
    /\ \A w \in Workers : req[w].pc = "idle"
    /\ jwks_cache # << >>

\* C35: the failure a launch's validation reports is that of the first
\* failing check in the order key id, signature and standard claims (the
\* signature first), LTI version, deployment id, nonce; no claim of the
\* payload decides before the key is resolved and the signature verified
C35_FirstFailingCheckReported ==
    LET tk == jwt_in.token
        ks == jwt_in.jwks
        pf == jwt_in.platform
    IN  jwt_out # "pending"
        => IF ~KeyResolved(tk, ks)
           THEN jwt_out = "Unable to find matching JWK"
           ELSE IF ~SignedByKeySet(tk, ks)
           THEN jwt_out \in {"InvalidAlgorithmError", "InvalidSignatureError"}
           ELSE IF ~StandardClaimsValid(tk, pf, jwt_in.t)
           THEN jwt_out \in {"ExpiredSignatureError", "InvalidIssuerError",
                             "InvalidAudienceError",
                             "MissingRequiredClaimError"}
           ELSE IF ~VersionValid(tk) THEN jwt_out = "Invalid LTI version"
           ELSE IF ~DeploymentAllowed(tk, pf)
           THEN jwt_out \in {"Missing deployment_id", "Invalid deployment_id"}
           ELSE IF ~NonceMatches(tk, jwt_in.stored_state)
           THEN jwt_out = "Invalid nonce"
           ELSE jwt_out = None

\* a token with an unknown key id that is also expired, of the wrong
\* version and of the wrong nonce was validated
C35_Witness ==
    /\ jwt_out = "Unable to find matching JWK"
    /\ jwt_in.token.kid = "k9"
    /\ jwt_in.token.exp = << 1 >>
    /\ jwt_in.t = 1
    /\ jwt_in.token.version = "1.2.0"
    /\ jwt_in.token.nonce = 2

\* C36: when the refetch of an expired entry fails and the cache holds an
\* entry for the URL, the cached key set is served and the launch goes on
C36_StaleEntryServed ==
    [][\A w \in Workers :
          (LaunchFetch(w, "error") /\ JwksUrl(w) \in DOMAIN jwks_cache)
          => /\ req'[w].pc = "validate"
             /\ req'[w].jwks = jwks_cache[JwksUrl(w)].jwks]_vars

\* C38: a launch that lacks id_token or state is answered with a failure,
\* the missing id_token when both are missing, and changes neither the
\* state store, the JWKS cache nor the session store, and starts no fetch
C38_MissingParameterFailsFirst ==
    [][\A w \in Workers, has_token \in BOOLEAN, s \in LaunchStates :
          (LaunchBegin(w, has_token, s) /\ (~has_token \/ s = 0))
          => /\ launch_resp'.status = 400
             /\ launch_resp'.error = IF ~has_token THEN "Missing id_token"
                                     ELSE "Missing state"
             /\ state_store' = state_store
             /\ jwks_cache' = jwks_cache
             /\ sessions' = sessions
             /\ req' = req]_vars

\* a launch with neither parameter was answered while a login state was
\* pending
C38_Witness ==
    /\ launch_resp.error = "Missing id_token"
    /\ launch_resp.state = 0
    /\ state_store # << >>

\* C39: a fetch that fails leaves every entry of the JWKS cache, its
\* expiry included, as it was
C39_FailedFetchLeavesCache ==
    [][\A w \in Workers :
          LaunchFetch(w, "error")
          => /\ DOMAIN jwks_cache' = DOMAIN jwks_cache
             /\ \A u \in DOMAIN jwks_cache : jwks_cache'[u] = jwks_cache[u]
      ]_vars

\* a refetch failed and the expired entry of its URL is still cached
C39_Witness ==
    /\ launch_resp.error = "RequestException"
    /\ \E u \in DOMAIN jwks_cache : jwks_cache[u].expires <= now

\* C40: a state entry is removed or altered only by a launch that
\* presented its token; a login leaves every existing state entry and
\* every session as it was
C40_FlowsIsolated ==
    [][/\ \A s \in DOMAIN state_store :
             (s \notin DOMAIN state_store' \/ state_store'[s] # state_store[s])
             => \E w \in Workers : /\ req[w].state = s
                                   /\ req[w].pc = "validate"
                                   /\ req'[w].pc = "create_session"
       /\ login_resp'.status # 0
          => /\ \A s \in DOMAIN state_store :
                   s \in DOMAIN state_store' /\ state_store'[s] = state_store[s]
             /\ sessions' = sessions
      ]_vars

\* a launch consumed its state entry while the entry of another login is
\* in the store
C40_Witness ==
    \E w \in Workers :
        /\ req[w].pc = "create_session"
        /\ req[w].state \notin DOMAIN state_store
        /\ state_store # << >>

====
